---------------------------- MODULE Spec2Model ----------------------------
(***************************************************************************)
(* Battery state-of-charge / degradation model and the simulated-section   *)
(* kinematic solver of the electric bus simulator.                         *)
(*                                                                         *)
(* The program computes with Python floats.  The model computes with exact *)
(* rationals: a number is a pair <<n, d>> with d > 0 and gcd(|n|, d) = 1,  *)
(* so every formula of the source is evaluated term by term as written.    *)
(***************************************************************************)
EXTENDS Integers, Sequences, FiniteSets, TLC

(***************************************************************************)
(* Exact rational arithmetic                                               *)
(***************************************************************************)
\* the pairs <<numerator, denominator>>
Rat == Int \X Int

\* The operators below hand their arguments to a local function, so that an
\* argument is evaluated once, however often the body uses it.
IAbs(i) == LET abs[a \in Int] == IF a < 0 THEN -a ELSE a IN abs[i]

GCD(a, b) ==
  LET gcd[m \in Int, n \in Int] == IF n = 0 THEN m ELSE gcd[n, m % n]
  IN  gcd[a, b]

\* n/d in lowest terms, d # 0
Frac(n, d) ==
  LET frac[a \in Int, b \in Int] ==
        LET s == IF b < 0 THEN -1 ELSE 1
            g == GCD(IAbs(a), IAbs(b))
        IN  <<(s * a) \div g, (s * b) \div g>>
  IN  frac[n, d]

R(i) == <<i, 1>>

RNeg(x) == LET neg[a \in Rat] == <<-a[1], a[2]>> IN neg[x]

RAdd(x, y) ==
  LET add[a \in Rat, b \in Rat] ==
        LET g == GCD(a[2], b[2])
        IN  Frac(a[1] * (b[2] \div g) + b[1] * (a[2] \div g), (a[2] \div g) * b[2])
  IN  add[x, y]

RSub(x, y) == RAdd(x, RNeg(y))

\* cross-cancelling product: the factors are in lowest terms, so is the result
RMul(x, y) ==
  LET mul[a \in Rat, b \in Rat] ==
        LET g1 == GCD(IAbs(a[1]), b[2])
            g2 == GCD(IAbs(b[1]), a[2])
        IN  <<(a[1] \div g1) * (b[1] \div g2), (a[2] \div g2) * (b[2] \div g1)>>
  IN  mul[x, y]

RInv(x) ==
  LET inv[a \in Rat] == IF a[1] < 0 THEN <<-a[2], -a[1]>> ELSE <<a[2], a[1]>>
  IN  inv[x]

\* x / y, y # 0
RDiv(x, y) == RMul(x, RInv(y))

RSign(x) ==
  LET sign[a \in Rat] == IF a[1] < 0 THEN -1 ELSE IF a[1] = 0 THEN 0 ELSE 1
  IN  sign[x]

\* the order of a/b and c/d (b, d > 0) as -1, 0 or 1, by integer parts and
\* then by the reciprocals of the fractional parts: no product is formed
Cmp(a, b, c, d) ==
  LET cmp[n1 \in Int, d1 \in Int, n2 \in Int, d2 \in Int] ==
        LET q1 == n1 \div d1
            q2 == n2 \div d2
            r1 == n1 % d1
            r2 == n2 % d2
        IN  IF q1 # q2 THEN (IF q1 < q2 THEN -1 ELSE 1)
            ELSE IF r1 = 0 /\ r2 = 0 THEN 0
            ELSE IF r1 = 0 THEN -1
            ELSE IF r2 = 0 THEN 1
            ELSE cmp[d2, r2, d1, r1]
  IN  cmp[a, b, c, d]

RLt(x, y) == LET lt[a \in Rat, b \in Rat] == Cmp(a[1], a[2], b[1], b[2]) < 0 IN lt[x, y]
RLe(x, y) == LET le[a \in Rat, b \in Rat] == Cmp(a[1], a[2], b[1], b[2]) <= 0 IN le[x, y]
RGt(x, y) == RLt(y, x)
RGe(x, y) == RLe(y, x)

RAbs(x) == LET abs[a \in Rat] == IF a[1] < 0 THEN RNeg(a) ELSE a IN abs[x]
RMin(x, y) == LET min[a \in Rat, b \in Rat] == IF RLe(a, b) THEN a ELSE b IN min[x, y]
RMax(x, y) == LET max[a \in Rat, b \in Rat] == IF RGe(a, b) THEN a ELSE b IN max[x, y]
RSq(x) == LET sq[a \in Rat] == RMul(a, a) IN sq[x]

Zero == R(0)
\* Python's None; a value that is set is a nonempty tuple
None == <<>>


(***************************************************************************)
(* State                                                                   *)
(***************************************************************************)
VARIABLES
  \* Battery fields
  state_of_charge_percent,   \* rational, percent
  completed_cycles,          \* _completed_cycles, rational
  current_capacity_ah,       \* rational, Ah
  degradation_in_section,    \* _degradation_in_section, rational
  timer_start,               \* None or <<t>>, t the clock read when the SOC fell under the minimum
  total_time_below_min_soc,  \* seconds of wall clock
  \* environment of the Battery
  clock,                     \* value the next time() call returns
  n_calls,                   \* number of Battery calls made so far
  last,                      \* the last Battery call: its arguments, the state it started from, its outcome
  min_state_of_health,       \* the constructor argument of that name, percent
  \* Route._process_simulated_sections
  secciones,                 \* sections built so far
  next_initial_speed,
  cumulative_time,
  pc,                        \* position of the section constructor
  sec,                       \* the SimulatedSection under construction
  \* Model._run_electric
  run,                       \* its locals, its position, and what it raised or returned
  twin                       \* the wall clock and the Battery timer of a second run of the same configuration

battery_vars == <<state_of_charge_percent, completed_cycles, current_capacity_ah,
                  degradation_in_section, timer_start, total_time_below_min_soc,
                  clock, n_calls, last, min_state_of_health>>
route_vars == <<secciones, next_initial_speed, cumulative_time, pc, sec>>
run_vars == <<run, twin>>
vars == <<battery_vars, route_vars, run_vars>>

(***************************************************************************)
(* Battery: constructor arguments                                          *)
(***************************************************************************)
\* A 120 kWh, 400 V battery (300 Ah) whose allowed loss of health is spread
\* over one cycle, so that the few calls of a behaviour take it through its
\* whole life and beyond; it starts full, or at 40 percent.  The minimum state
\* of health is an argument too: see BatteryInit and RunInit.
voltage_v == 400
initial_capacity_kWh == 120
max_cycles == 1
min_battery_charge == 20
InitialSocPercents == {100, 40}

(***************************************************************************)
(* Bounds and input sets                                                   *)
(***************************************************************************)
MaxCalls == 4
MaxClock == 1
\* charge moved by one update call, in percent of the magnitude of the current
\* capacity (positive: discharge, negative: regenerative charge)
AhPercents == {20, 60, -30}
\* magnitude of the current of one update call, in A
Currents == {1000, 6000}
\* charging point power in W, and the SOC asked of it
ChargingPowers == {400000, 2400000}
DesiredSocs == {80, 100}

(***************************************************************************)
(* Battery: pure methods                                                   *)
(***************************************************************************)
_convert_kWh_to_Ah(kWh) == RDiv(RMul(R(kWh), R(1000)), R(voltage_v))

_initial_capacity_ah == _convert_kWh_to_Ah(initial_capacity_kWh)

degradation_rate ==
  LET initial_state_of_health == 100
      allowed_health_loss == initial_state_of_health - min_state_of_health
  IN  RDiv(RDiv(R(allowed_health_loss), R(max_cycles)), R(100))

state_of_health(cycles) ==
  LET health_loss == RMul(cycles, degradation_rate)
  IN  RSub(R(1), health_loss)

\* variant: the SOC is taken as a fraction, not as a percentage
_get_soc_in_ah_fraction(capacity, soc) == RMul(capacity, soc)

_get_soc_in_ah(capacity, soc) == RMul(capacity, RDiv(soc, R(100)))

_compute_new_soc(capacity, soc, ah_transferred) ==
  LET current_soc_ah == _get_soc_in_ah(capacity, soc)
      updated_soc_in_ah == RMin(RSub(current_soc_ah, ah_transferred), capacity)
  IN  RMul(RDiv(updated_soc_in_ah, capacity), R(100))

\* _calculate_current(power=power)
_calculate_current_power(power) == RDiv(R(power), R(voltage_v))

\* _calculate_current(ah_transferred, time_seconds); raises unless both are
\* nonzero and time_seconds > 0
_calculate_current_raises(ah_transferred, time_seconds) ==
  \/ ah_transferred = Zero
  \/ time_seconds = Zero
  \/ RLe(time_seconds, Zero)

_calculate_current(ah_transferred, time_seconds) ==
  RDiv(ah_transferred, RDiv(time_seconds, R(3600)))

_is_charging(electric_current) == RLt(electric_current, Zero)

_calculate_charging_degradation(soc_percent) ==
  LET m == Frac(2, 100)
  IN  IF RLt(soc_percent, R(80))
      THEN Frac(1005, 1000)
      ELSE RAdd(Frac(1005, 1000), RMul(m, RSub(soc_percent, R(80))))

_calculate_discharging_degradation(soc_percent) ==
  LET m == Frac(2, 100)
  IN  IF RGt(soc_percent, R(20))
      THEN Frac(105, 100)
      ELSE RAdd(Frac(105, 100), RMul(m, RSub(R(20), soc_percent)))

_soc_degradation_factor(soc_percent, electric_current) ==
  IF _is_charging(electric_current)
  THEN _calculate_charging_degradation(soc_percent)
  ELSE _calculate_discharging_degradation(soc_percent)

_electric_current_degradation_factor(electric_current) ==
  LET m == Frac(2, 10000)
  IN  IF _is_charging(electric_current)
      THEN RAdd(R(1), RMul(m, electric_current))
      ELSE RAdd(R(1), RMul(m, RAbs(electric_current)))

\* variant: the SOC change is signed (no abs)
_increase_completed_cycles_signed(cycles, initial_soc_percent, final_soc_percent, factor) ==
  LET cycle_increment == RDiv(RSub(final_soc_percent, initial_soc_percent), R(100))
  IN  RAdd(cycles, RMul(cycle_increment, factor))

\* the new value of _completed_cycles
_increase_completed_cycles(cycles, initial_soc_percent, final_soc_percent, factor) ==
  LET cycle_increment == RDiv(RAbs(RSub(initial_soc_percent, final_soc_percent)), R(100))
  IN  RAdd(cycles, RMul(cycle_increment, factor))

\* the new value of _degradation_in_section
_degradation_of_section(initial_soc_percent, final_soc_percent) ==
  LET cycle_increment == RDiv(RAbs(RSub(initial_soc_percent, final_soc_percent)), R(100))
  IN  RDiv(cycle_increment, R(max_cycles))

\* the new value of _completed_cycles after _apply_degradation
_apply_degradation(cycles, soc, updated_soc_percent, electric_current) ==
  LET initial_soc_percent == soc
      soc_factor == _soc_degradation_factor(updated_soc_percent, electric_current)
      electric_current_factor == _electric_current_degradation_factor(electric_current)
      adjusted_degradation_factor == RMul(soc_factor, electric_current_factor)
  IN  _increase_completed_cycles(cycles, initial_soc_percent, updated_soc_percent,
                                 adjusted_degradation_factor)

_calculate_time_to_charge(capacity, soc, power, desired_soc) ==
  LET desired_soc_ah == RMul(RDiv(R(desired_soc), R(100)), capacity)
      charge_needed == RSub(desired_soc_ah, _get_soc_in_ah(capacity, soc))
  IN  RMul(RDiv(RMul(charge_needed, R(voltage_v)), R(power)), R(3600))

(***************************************************************************)
(* Battery: operations                                                     *)
(***************************************************************************)
NoCall == [op |-> "none", raised |-> FALSE, ah_transferred |-> None, time_seconds |-> None,
           power |-> None, desired_soc |-> None, soc_before |-> None,
           capacity_before |-> None, cycles_before |-> None,
           electric_current |-> None, returned |-> None]

\* the call record of an operation started in the current state
Call(op, ah_transferred, time_seconds, power, desired_soc) ==
  [NoCall EXCEPT !.op = op, !.ah_transferred = ah_transferred,
                 !.time_seconds = time_seconds, !.power = power,
                 !.desired_soc = desired_soc,
                 !.soc_before = state_of_charge_percent,
                 !.capacity_before = current_capacity_ah,
                 !.cycles_before = completed_cycles]

\* variant: the timer also runs when the SOC is at the minimum
check_soc_under_minimum_at_minimum(soc_percent) ==
  IF RLe(soc_percent, R(min_battery_charge))
  THEN /\ timer_start' = IF timer_start = None THEN <<clock>> ELSE timer_start
       /\ UNCHANGED total_time_below_min_soc
  ELSE IF timer_start # None
       THEN /\ total_time_below_min_soc' = total_time_below_min_soc + (clock - timer_start[1])
            /\ timer_start' = None
       ELSE UNCHANGED <<timer_start, total_time_below_min_soc>>

\* check_soc_under_minimum(soc_percent): time() returns the clock
check_soc_under_minimum(soc_percent) ==
  IF RLt(soc_percent, R(min_battery_charge))
  THEN /\ timer_start' = IF timer_start = None THEN <<clock>> ELSE timer_start
       /\ UNCHANGED total_time_below_min_soc
  ELSE IF timer_start # None
       THEN /\ total_time_below_min_soc' = total_time_below_min_soc + (clock - timer_start[1])
            /\ timer_start' = None
       ELSE UNCHANGED <<timer_start, total_time_below_min_soc>>

\* variant: a discharge that would take the SOC under 0 raises too
update_raises_when_drained(ah_transferred, time_seconds) ==
  \/ current_capacity_ah = Zero
  \/ _calculate_current_raises(ah_transferred, time_seconds)
  \/ RLt(_compute_new_soc(current_capacity_ah, state_of_charge_percent, ah_transferred),
         Zero)

\* update_soc_and_degradation raises before it changes anything: in
\* _compute_new_soc (division by a zero capacity) or in _calculate_current
update_raises(ah_transferred, time_seconds) ==
  \/ current_capacity_ah = Zero
  \/ _calculate_current_raises(ah_transferred, time_seconds)

\* the body of update_soc_and_degradation when it does not raise
update_body(ah_transferred, time_seconds) ==
  LET updated_soc_percent ==
        _compute_new_soc(current_capacity_ah, state_of_charge_percent, ah_transferred)
      electric_current == _calculate_current(ah_transferred, time_seconds)
      cycles == _apply_degradation(completed_cycles, state_of_charge_percent,
                                   updated_soc_percent, electric_current)
  IN  /\ completed_cycles' = cycles
      /\ degradation_in_section' =
           _degradation_of_section(state_of_charge_percent, updated_soc_percent)
      /\ current_capacity_ah' = RMul(_initial_capacity_ah, state_of_health(cycles))
      /\ state_of_charge_percent' = updated_soc_percent
      /\ check_soc_under_minimum(updated_soc_percent)

battery_fields == <<state_of_charge_percent, completed_cycles, current_capacity_ah,
                    degradation_in_section, timer_start, total_time_below_min_soc>>

\* one call of update_soc_and_degradation(ah_transferred, time_seconds) made
\* from outside the Battery (ElectricalEngine.consumption)
update_soc_and_degradation ==
  /\ n_calls < MaxCalls
  /\ current_capacity_ah # Zero
  /\ \E p \in AhPercents, i \in Currents :
       LET ah_transferred == RMul(Frac(p, 100), RAbs(current_capacity_ah))
           time_seconds == RMul(RAbs(ah_transferred), Frac(3600, i))
           call == Call("update", ah_transferred, time_seconds, None, None)
       IN  IF update_raises(ah_transferred, time_seconds)
           THEN /\ UNCHANGED battery_fields
                /\ last' = [call EXCEPT !.raised = TRUE]
           ELSE /\ update_body(ah_transferred, time_seconds)
                /\ last' = [call EXCEPT !.electric_current =
                                          _calculate_current(ah_transferred, time_seconds)]
  /\ n_calls' = n_calls + 1
  /\ UNCHANGED <<clock, min_state_of_health>>

charge_in_charging_point ==
  /\ n_calls < MaxCalls
  /\ \E power \in ChargingPowers, desired_soc \in DesiredSocs :
       LET time_seconds == _calculate_time_to_charge(current_capacity_ah,
                              state_of_charge_percent, power, desired_soc)
           ah_transferred == RMul(_calculate_current_power(power),
                                  RDiv(time_seconds, R(3600)))
           call == Call("charge", RNeg(ah_transferred), time_seconds, power, desired_soc)
       IN  IF power <= 0 \/ update_raises(RNeg(ah_transferred), time_seconds)
           THEN /\ UNCHANGED battery_fields
                /\ last' = [call EXCEPT !.raised = TRUE]
           ELSE /\ update_body(RNeg(ah_transferred), time_seconds)
                /\ last' = [call EXCEPT !.electric_current =
                                          _calculate_current(RNeg(ah_transferred), time_seconds),
                                        !.returned = time_seconds]
  /\ n_calls' = n_calls + 1
  /\ UNCHANGED <<clock, min_state_of_health>>

\* the wall clock read by time() advances between calls
Tick ==
  /\ clock < MaxClock
  /\ clock' = clock + 1
  /\ UNCHANGED <<battery_fields, n_calls, last, min_state_of_health>>

\* Battery.__init__, but for min_state_of_health
NewBattery ==
  /\ state_of_charge_percent \in {R(s) : s \in InitialSocPercents}
  /\ completed_cycles = Zero
  /\ current_capacity_ah = _convert_kWh_to_Ah(initial_capacity_kWh)
  /\ degradation_in_section = Zero
  /\ timer_start = None
  /\ total_time_below_min_soc = 0
  /\ clock = 0
  /\ n_calls = 0
  /\ last = NoCall

\* a battery that may lose 20 percent of its health
BatteryInit == NewBattery /\ min_state_of_health = 80

RouteIdle ==
  /\ secciones = <<>>
  /\ next_initial_speed = Zero
  /\ cumulative_time = Zero
  /\ pc = "idle"
  /\ sec = None

\* no electric run has been started
NoRun == [pc |-> "off"]
NoTwin == [clock |-> 0, timer_start |-> None, total_time_below_min_soc |-> 0]

RunIdle ==
  /\ run = NoRun
  /\ twin = NoTwin

Init == BatteryInit /\ RouteIdle /\ RunIdle

BatteryNext ==
  \/ update_soc_and_degradation /\ UNCHANGED <<route_vars, run_vars>>
  \/ charge_in_charging_point /\ UNCHANGED <<route_vars, run_vars>>
  \/ Tick /\ UNCHANGED <<route_vars, run_vars>>

BatterySpec == Init /\ [][BatteryNext]_vars

(***************************************************************************)
(* Bus and physical constants                                              *)
(***************************************************************************)
total_mass == 18000
drag_coefficient == Frac(8, 10)
frontal_area == 9
rolling_resistance_coefficient == Frac(1, 100)
AIR_DENSITY == Frac(1225, 1000)
GRAVITY == Frac(981, 100)
MAX_ACCELERATION == Frac(15, 10)
MAX_DECELERATION == R(-1)

(***************************************************************************)
(* Route input: bounds and input sets                                      *)
(***************************************************************************)
MaxSections == 3
\* speed_limit column, km/h
SpeedLimits == {0, 9, 18, 36}
\* geodesic length of a section in m, as <<numerator, denominator>>; two
\* consecutive rows may have the same coordinates
Lengths == {<<0, 1>>, <<1, 2>>, <<5, 1>>, <<10, 1>>}

(***************************************************************************)
(* ResistanceCalculator                                                    *)
(***************************************************************************)
\* sin(radians(grade_angle)); the routes of the model are flat, so the only
\* grade angle is 0
sin_radians(grade_angle) == IF grade_angle = Zero THEN Zero ELSE None

air_resistance(average_speed) ==
  RMul(RMul(RMul(RMul(Frac(1, 2), AIR_DENSITY), drag_coefficient), R(frontal_area)),
       RSq(average_speed))

inertia(acceleration) == RMul(R(total_mass), acceleration)

grade_resistance(grade_angle) ==
  RMul(RMul(R(total_mass), GRAVITY), sin_radians(grade_angle))

rolling_resistance == RMul(RMul(rolling_resistance_coefficient, R(total_mass)), GRAVITY)

\* variant: the sum without the rolling resistance
total_resistance_no_rolling(average_speed, acceleration, grade_angle) ==
  RAdd(RAdd(air_resistance(average_speed), inertia(acceleration)),
       grade_resistance(grade_angle))

total_resistance(average_speed, acceleration, grade_angle) ==
  RAdd(RAdd(RAdd(air_resistance(average_speed), inertia(acceleration)),
            grade_resistance(grade_angle)),
       rolling_resistance)

(***************************************************************************)
(* BaseSection / SimulatedSection: pure methods on a section record        *)
(***************************************************************************)
duration_time(s) == RSub(s.end_time, s.start_time)

\* grade_angle: 0 when the length is 0; the end points of the model's
\* sections have the same altitude, and atan(0) = 0
grade_angle(s) == Zero

_calculate_average_speed(s) == RDiv(RAdd(s.start_speed, s.end_speed), R(2))

_calculate_acceleration(s) ==
  LET delta_v == RSub(s.end_speed, s.start_speed)
      delta_t == duration_time(s)
  IN  IF delta_t # Zero THEN RDiv(delta_v, delta_t) ELSE Zero

\* total_resistance of the section: that of the ResistanceCalculator built by
\* BaseSection.__init__
section_total_resistance(s) ==
  total_resistance(s.rc_average_speed, s.rc_acceleration, s.rc_grade_angle)

\* <<effective_max_acceleration, effective_max_deceleration>>
_calculate_effective_forces(s) ==
  LET resistance == section_total_resistance(s)
  IN  <<RSub(MAX_ACCELERATION, RDiv(resistance, R(total_mass))),
        RAdd(MAX_DECELERATION, RDiv(resistance, R(total_mass)))>>

\* the division by 2 * dist raises ZeroDivisionError
_calculate_instant_acceleration_raises(dist) == RMul(R(2), dist) = Zero

_calculate_instant_acceleration(start_speed, end_speed, dist) ==
  RDiv(RSub(RSq(end_speed), RSq(start_speed)), RMul(R(2), dist))

_set_acceleration(decel, accel) ==
  IF accel # None /\ decel = None THEN accel
  ELSE IF decel # None /\ accel = None THEN decel
  ELSE Zero

\* variant: the time of a deceleration is divided by decel, not by abs(decel)
_calculate_time_signed(s, decel, accel, dist) ==
  LET time == IF decel # None /\ RLt(decel, Zero)
              THEN RDiv(RSub(s.start_speed, s.end_speed), decel)
              ELSE IF accel # None /\ RGt(accel, Zero)
              THEN RDiv(RSub(s.end_speed, s.start_speed), accel)
              ELSE RDiv(dist, RMax(s.start_speed, Frac(1, 10)))
  IN  RAdd(s.start_time, time)

\* the end time of the section
_calculate_time(s, decel, accel, dist) ==
  LET time == IF decel # None /\ RLt(decel, Zero)
              THEN RDiv(RSub(s.start_speed, s.end_speed), RAbs(decel))
              ELSE IF accel # None /\ RGt(accel, Zero)
              THEN RDiv(RSub(s.end_speed, s.start_speed), accel)
              ELSE RDiv(dist, RMax(s.start_speed, Frac(1, 10)))
  IN  RAdd(s.start_time, time)

step_size == R(1)

(***************************************************************************)
(* Route._process_simulated_sections and the SimulatedSection constructor  *)
(***************************************************************************)
\* SimulatedSection.__init__ up to the first loop test of _calculate_end_speed,
\* for the next row of the data: its speed limit (km/h) and the length of the
\* segment that ends at it
NewSection ==
  /\ pc = "idle"
  /\ Len(secciones) < MaxSections
  /\ \E limit \in SpeedLimits, dist \in Lengths :
       LET \* SimulatedSection.__init__: the fields set before super().__init__
           s0 == [length |-> dist,
                  speed_limit |-> RDiv(R(limit), Frac(36, 10)),
                  start_speed |-> next_initial_speed,
                  start_time |-> cumulative_time,
                  end_speed |-> Zero,
                  end_time |-> Zero]
           \* BaseSection.__init__
           s1 == [length |-> s0.length, speed_limit |-> s0.speed_limit,
                  start_speed |-> s0.start_speed, start_time |-> s0.start_time,
                  end_speed |-> s0.end_speed, end_time |-> s0.end_time,
                  acceleration |-> _calculate_acceleration(s0),
                  rc_average_speed |-> _calculate_average_speed(s0),
                  rc_acceleration |-> _calculate_acceleration(s0),
                  rc_grade_angle |-> grade_angle(s0)]
           \* _process
           forces == _calculate_effective_forces(s1)
           limit_ms == s1.speed_limit
           \* _calculate_end_speed: the case, the end speed it starts from
           case == IF limit_ms = Zero THEN "stop"
                   ELSE IF RLt(limit_ms, s1.start_speed) THEN "decelerate"
                   ELSE IF RGt(limit_ms, s1.start_speed) THEN "accelerate"
                   ELSE "solved"
           end_speed == IF case = "stop" THEN Zero ELSE limit_ms
           \* _decelerate_to_stop, _decelerate and _accelerate start with
           \* _calculate_instant_acceleration
           raises == case # "solved" /\ _calculate_instant_acceleration_raises(dist)
           a == IF raises THEN None
                ELSE _calculate_instant_acceleration(s1.start_speed, end_speed, dist)
       IN  /\ sec' = [length |-> s1.length, speed_limit |-> s1.speed_limit,
                      start_speed |-> s1.start_speed, start_time |-> s1.start_time,
                      end_speed |-> end_speed, end_time |-> s1.end_time,
                      acceleration |-> s1.acceleration,
                      rc_average_speed |-> s1.rc_average_speed,
                      rc_acceleration |-> s1.rc_acceleration,
                      rc_grade_angle |-> s1.rc_grade_angle,
                      effective_max_acceleration |-> forces[1],
                      effective_max_deceleration |-> forces[2],
                      decel |-> IF case \in {"stop", "decelerate"} THEN a ELSE None,
                      accel |-> IF case = "accelerate" THEN a ELSE None,
                      case |-> case,
                      \* the start_speed argument of the constructor
                      initial_speed |-> next_initial_speed]
           /\ pc' = IF raises THEN "raised" ELSE case
  /\ UNCHANGED <<secciones, next_initial_speed, cumulative_time>>

\* variant: one step down, when the speed stays at or above -1
step_down_below_zero(speed) ==
  IF RGe(RSub(speed, step_size), R(-1)) THEN RSub(speed, step_size) ELSE speed

\* one step down, when the speed stays at or above 0
step_down(speed) ==
  IF RGe(RSub(speed, step_size), Zero) THEN RSub(speed, step_size) ELSE speed

\* the test of _decelerate_to_stop without abs() around decel
stop_loop_test_signed(s) == RGt(s.decel, RAbs(s.effective_max_deceleration))

\* the loop tests
stop_loop_test(s) == RGt(RAbs(s.decel), RAbs(s.effective_max_deceleration))
decelerate_loop_test(s) == RGt(RAbs(s.decel), RAbs(s.effective_max_deceleration))
accelerate_loop_test(s) == RGt(RAbs(s.accel), RAbs(s.effective_max_acceleration))

\* one iteration of the while loop of _decelerate_to_stop
_decelerate_to_stop ==
  /\ pc = "stop"
  /\ stop_loop_test(sec)
  /\ LET start_speed == step_down(sec.start_speed)
     IN  sec' = [sec EXCEPT !.start_speed = start_speed,
                            !.decel = RDiv(RNeg(RSq(start_speed)),
                                           RMul(R(2), sec.length))]
  /\ UNCHANGED <<secciones, next_initial_speed, cumulative_time, pc>>

\* one iteration of the while loop of _decelerate
_decelerate ==
  /\ pc = "decelerate"
  /\ decelerate_loop_test(sec)
  /\ LET end_speed == step_down(sec.end_speed)
         start_speed == step_down(sec.start_speed)
     IN  sec' = [sec EXCEPT !.end_speed = end_speed,
                            !.start_speed = start_speed,
                            !.decel = RDiv(RSub(RSq(end_speed), RSq(start_speed)),
                                           RMul(R(2), sec.length))]
  /\ UNCHANGED <<secciones, next_initial_speed, cumulative_time, pc>>

\* one iteration of the while loop of _accelerate
_accelerate ==
  /\ pc = "accelerate"
  /\ accelerate_loop_test(sec)
  /\ LET end_speed == step_down(sec.end_speed)
         start_speed == step_down(sec.start_speed)
     IN  sec' = [sec EXCEPT !.end_speed = end_speed,
                            !.start_speed = start_speed,
                            !.accel = RDiv(RSub(RSq(end_speed), RSq(start_speed)),
                                           RMul(R(2), sec.length))]
  /\ UNCHANGED <<secciones, next_initial_speed, cumulative_time, pc>>

\* _calculate_end_speed has returned
end_speed_calculated ==
  \/ pc = "solved"
  \/ pc = "stop" /\ ~stop_loop_test(sec)
  \/ pc = "decelerate" /\ ~decelerate_loop_test(sec)
  \/ pc = "accelerate" /\ ~accelerate_loop_test(sec)

\* the list left as the constructors of its sections made it
set_last_end_speed_skipped(sections, speed) == sections

\* the list with the end speed of its last section overwritten
set_last_end_speed(sections, speed) ==
  IF sections # <<>>
  THEN [sections EXCEPT ![Len(sections)].end_speed = speed]
  ELSE sections

\* the rest of _process, and the rest of the loop body of
\* _process_simulated_sections
FinishSection ==
  /\ end_speed_calculated
  /\ LET solved == [sec EXCEPT !.acceleration = _set_acceleration(sec.decel, sec.accel),
                               !.end_time = _calculate_time(sec, sec.decel, sec.accel,
                                                            sec.length)]
     IN  /\ next_initial_speed' = solved.end_speed
         /\ secciones' = Append(set_last_end_speed(secciones, solved.start_speed), solved)
         /\ cumulative_time' = solved.end_time
  /\ sec' = None
  /\ pc' = "idle"

\* the data has no further row: _process_simulated_sections returns the list
ReturnSections ==
  /\ pc = "idle"
  /\ pc' = "returned"
  /\ UNCHANGED <<secciones, next_initial_speed, cumulative_time, sec>>

RouteNext ==
  \/ NewSection /\ UNCHANGED <<battery_vars, run_vars>>
  \/ _decelerate_to_stop /\ UNCHANGED <<battery_vars, run_vars>>
  \/ _decelerate /\ UNCHANGED <<battery_vars, run_vars>>
  \/ _accelerate /\ UNCHANGED <<battery_vars, run_vars>>
  \/ FinishSection /\ UNCHANGED <<battery_vars, run_vars>>
  \/ ReturnSections /\ UNCHANGED <<battery_vars, run_vars>>

\* the route is built for a bus whose battery is new and full
RouteInit == Init /\ state_of_charge_percent = R(100)

RouteSpec == RouteInit /\ [][RouteNext]_vars

\* the steps of a running SimulatedSection constructor
Solve ==
  (_decelerate_to_stop \/ _decelerate \/ _accelerate \/ FinishSection)
    /\ UNCHANGED <<battery_vars, run_vars>>

\* a constructor that has been called keeps running: it takes its next step
\* as long as it has one
RouteFairSpec == RouteSpec /\ WF_vars(Solve)

(***************************************************************************)
(* ElectricalEngine, CostCalculator, Model: constructor arguments          *)
(***************************************************************************)
\* ElectricalEngine(max_power, efficiency): max_power in kW
engine_max_power == 500
efficiency == Frac(4, 5)
\* ModelConfig: the SOC a charge stops at; Model.min_battery_charge is the
\* min_battery_charge of the Battery
max_battery_charge == 80
\* the charging point of the run: its power (W), its distance from the route
\* (km) and the time to reach it (min)
power_watts == 400000
distance_km == R(3)
time_min == 5
\* Route.length_km
length_km == Frac(1061, 100)
\* CostCalculator
electricity_cost == Frac(15, 100)
battery_capacity_cost == 140
base_cost == 450000

(***************************************************************************)
(* Electric run: bounds and input                                          *)
(***************************************************************************)
\* the iterations of a run, and the sections of its route
n_iters == 3
MaxRouteSections == 2
\* two consecutive rows of the data in real mode: the seconds between their
\* timestamps, their speeds (m/s), the geodesic distance between their
\* coordinates (m), and the work (J) of the section between them,
\* total_resistance * length * cos(grade_angle).  500 kW asked for 216 s
\* (a fifth of the battery), 1000 kW asked for 108 s, 500 kW given back for
\* 108 s, two rows with the same timestamp and the same coordinates, and two
\* rows 108 s apart with the same coordinates (the bus stands at a stop)
Segments ==
  { [dt |-> 216, work |-> 108000000, speeds |-> <<10, 10>>, length |-> 2160],
    [dt |-> 108, work |-> 108000000, speeds |-> <<10, 20>>, length |-> 1620],
    [dt |-> 108, work |-> -54000000, speeds |-> <<20, 10>>, length |-> 1620],
    [dt |-> 0, work |-> 0, speeds |-> <<10, 5>>, length |-> 0],
    [dt |-> 108, work |-> 0, speeds |-> <<0, 0>>, length |-> 0] }
RouteData == UNION {[1..n -> Segments] : n \in 1..MaxRouteSections}

(***************************************************************************)
(* RealSection                                                             *)
(***************************************************************************)
\* RealSection.__init__ for the rows around a segment, the first at start_time
RealSection(start_time, seg) ==
  LET s0 == [start_speed |-> R(seg.speeds[1]), end_speed |-> R(seg.speeds[2]),
             start_time |-> start_time, end_time |-> RAdd(start_time, R(seg.dt))]
  IN  [length |-> R(seg.length),
       start_speed |-> s0.start_speed, end_speed |-> s0.end_speed,
       start_time |-> s0.start_time, end_time |-> s0.end_time,
       acceleration |-> _calculate_acceleration(s0),
       work |-> R(seg.work)]

\* Route._process_real_sections: one section for every two consecutive rows
_process_real_sections(data) ==
  LET time[i \in 0..Len(data)] ==
        IF i = 0 THEN Zero ELSE RAdd(time[i - 1], R(data[i].dt))
  IN  [i \in 1..Len(data) |-> RealSection(time[i - 1], data[i])]

\* instant_power divides the work by the duration: with Python numbers a zero
\* duration raises ZeroDivisionError, with the numpy numbers of a pandas row
\* 0 / 0 gives nan and a warning
NaN == <<0, 0>>

instant_power_divides_by_zero(s) == duration_time(s) = Zero

instant_power(s) == RDiv(s.work, duration_time(s))

\* Route._route_duration_time
_route_duration_time(sections) ==
  LET total[i \in 0..Len(sections)] ==
        IF i = 0 THEN Zero
        ELSE RAdd(total[i - 1], RSub(sections[i].end_time, sections[i].start_time))
  IN  total[Len(sections)]

(***************************************************************************)
(* BaseEngine / ElectricalEngine                                           *)
(***************************************************************************)
\* BaseEngine._max_power, W
_max_power == engine_max_power * 1000

\* variant: the power is not limited to the maximum power
_adjust_power_unlimited(power) == RMul(power, efficiency)

_adjust_power(power) ==
  IF RLe(power, R(_max_power))
  THEN RMul(power, efficiency)
  ELSE RMul(R(_max_power), efficiency)

\* ElectricalEngine.consumption(power, time): the dictionary it returns
consumption(power, time) ==
  LET adjusted == _adjust_power(power)
      hours == RDiv(time, R(3600))
      watts_hour == RMul(adjusted, hours)
      ampers_hour == RDiv(watts_hour, R(voltage_v))
  IN  [Wh |-> watts_hour, Ah |-> ampers_hour]

(***************************************************************************)
(* CostCalculator                                                          *)
(***************************************************************************)
\* round(x, 2): the nearest hundredth, a tie going to the even one
round2(x) ==
  LET rnd[a \in Rat] ==
        LET \* a * 100 = q + r / a[2], q whole and 0 <= r < a[2]
            q == 100 * (a[1] \div a[2]) + (100 * (a[1] % a[2])) \div a[2]
            r == (100 * (a[1] % a[2])) % a[2]
            up == (2 * r > a[2]) \/ (2 * r = a[2] /\ q % 2 = 1)
        IN  Frac(IF up THEN q + 1 ELSE q, 100)
  IN  rnd[x]

_get_bus_cost ==
  LET battery_capacity_kWh == initial_capacity_kWh
      battery_cost == battery_capacity_kWh * battery_capacity_cost
  IN  R(base_cost + battery_cost)

_get_consumption_cost(consumption_total) == RMul(consumption_total, electricity_cost)

\* <<bus cost, consumption cost>>
calculate_costs(consumption_total) ==
  <<round2(_get_bus_cost), round2(_get_consumption_cost(consumption_total))>>

(***************************************************************************)
(* Model._run_electric                                                     *)
(***************************************************************************)
\* the locals of _run_electric when it reaches its loop, for the sections of
\* a route; call, charging_times, before, discharged_ah and reported_ah record
\* what the run did: the last engine call, the times the charges returned,
\* the accumulators before the last iteration ended, and for the traversal
\* under way the Ah handed to the Battery and the Ah of the dictionaries the
\* loop body read for its totals
StartOfRun(sections) ==
  [pc |-> "head",
   route |-> sections,
   route_length_km |-> length_km,
   factor |-> RDiv(RAdd(length_km, distance_km), length_km),
   time_to_charging_point_s |-> R(time_min * 60),
   n_buses |-> 1,
   availability_time_s |-> Zero,
   consumption |-> Zero,
   emissions |-> Zero,
   battery_degradation |-> Zero,
   unavailability_time_s |-> Zero,
   iter |-> 0,
   charged |-> FALSE,
   i |-> 1,
   total_wh |-> Zero,
   total_emissions |-> Zero,
   total_battery_degradation |-> Zero,
   call |-> None,
   discharged_ah |-> Zero,
   reported_ah |-> Zero,
   charging_times |-> <<>>,
   before |-> None,
   error |-> None,
   results |-> None]

\* Battery.check_soc_under_minimum(soc_percent) in the second run: time()
\* returns the clock of that run
twin_check_soc_under_minimum(soc_percent) ==
  IF RLt(soc_percent, R(min_battery_charge))
  THEN [twin EXCEPT !.timer_start = IF @ = None THEN <<twin.clock>> ELSE @]
  ELSE IF twin.timer_start # None
       THEN [twin EXCEPT !.total_time_below_min_soc = @ + (twin.clock - twin.timer_start[1]),
                         !.timer_start = None]
       ELSE twin

\* a call of Battery.update_soc_and_degradation made by the run, directly or
\* from charge_in_charging_point (op); the second run makes the same call
run_battery_call(op, ah_transferred, time_seconds, power, desired_soc) ==
  LET call == Call(op, ah_transferred, time_seconds, power, desired_soc)
  IN  /\ IF update_raises(ah_transferred, time_seconds)
         THEN /\ UNCHANGED battery_fields
              /\ last' = [call EXCEPT !.raised = TRUE]
              /\ UNCHANGED twin
         ELSE /\ update_body(ah_transferred, time_seconds)
              /\ last' = [call EXCEPT !.electric_current =
                                        _calculate_current(ah_transferred, time_seconds),
                                      !.returned = IF op = "charge" THEN time_seconds
                                                   ELSE None]
              /\ twin' = twin_check_soc_under_minimum(
                           _compute_new_soc(current_capacity_ah, state_of_charge_percent,
                                            ah_transferred))
      /\ n_calls' = n_calls + 1
      /\ UNCHANGED <<clock, min_state_of_health>>

\* variant: the battery is charged at the minimum charge too
needs_charge_at_minimum(soc) == RLe(soc, R(min_battery_charge))

\* the test at the head of the loop
needs_charge(soc) == RLt(soc, R(min_battery_charge))

\* variant: the way to the charging point is counted once
unavailability_one_way(charging_time_s, time_to_charging_point_s) ==
  RAdd(charging_time_s, time_to_charging_point_s)

\* the time a charge adds to unavailability_time_s
unavailability(charging_time_s, time_to_charging_point_s) ==
  RAdd(charging_time_s, RMul(R(2), time_to_charging_point_s))

\* the locals of an iteration when it starts to go over the sections
StartOfTraversal(r, charged) ==
  [r EXCEPT !.pc = "section_emissions", !.charged = charged, !.i = 1,
            !.total_wh = Zero, !.total_emissions = Zero,
            !.total_battery_degradation = Zero, !.call = None,
            !.discharged_ah = Zero, !.reported_ah = Zero]

\* an exception leaves _run_electric
Raised(r, error) == [r EXCEPT !.pc = "raised", !.error = <<error>>]

\* the head of an iteration when the SOC is under the minimum: the battery
\* is charged at the charging point
RunCharge ==
  /\ run.pc = "head"
  /\ run.iter < n_iters
  /\ needs_charge(state_of_charge_percent)
  /\ LET time_seconds == _calculate_time_to_charge(current_capacity_ah,
                            state_of_charge_percent, power_watts, max_battery_charge)
         ah_transferred == RMul(_calculate_current_power(power_watts),
                                RDiv(time_seconds, R(3600)))
     IN  /\ run_battery_call("charge", RNeg(ah_transferred), time_seconds,
                             power_watts, max_battery_charge)
         /\ run' = IF update_raises(RNeg(ah_transferred), time_seconds)
                   THEN Raised(run, "ValueError")
                   ELSE [StartOfTraversal(run, TRUE) EXCEPT
                           !.unavailability_time_s =
                              RAdd(@, unavailability(time_seconds,
                                                     run.time_to_charging_point_s)),
                           !.n_buses = 2,
                           !.charging_times = Append(@, time_seconds)]

\* the head of an iteration when the SOC is not under the minimum
RunNoCharge ==
  /\ run.pc = "head"
  /\ run.iter < n_iters
  /\ ~needs_charge(state_of_charge_percent)
  /\ run' = StartOfTraversal(run, FALSE)
  /\ UNCHANGED <<battery_vars, twin>>

\* sect.consumption: instant_power, then ElectricalEngine.consumption with the
\* Battery call it makes; r is the run once the dictionary is returned
read_consumption(sect, r) ==
  IF instant_power_divides_by_zero(sect)
  THEN \/ /\ run' = Raised(run, "ZeroDivisionError")
          /\ UNCHANGED <<battery_vars, twin>>
       \/ \* numpy: the power is nan, and no charge is moved in no time
          /\ run_battery_call("update", Zero, duration_time(sect), None, None)
          /\ run' = Raised([run EXCEPT !.call = [power |-> NaN, time |-> Zero,
                                                 Wh |-> Zero, Ah |-> Zero]],
                           "ValueError")
  ELSE LET power == instant_power(sect)
           time == duration_time(sect)
           dict == consumption(power, time)
       IN  /\ run_battery_call("update", dict.Ah, time, None, None)
           /\ run' = IF update_raises(dict.Ah, time)
                     THEN Raised([run EXCEPT !.call = [power |-> power, time |-> time,
                                                       Wh |-> dict.Wh, Ah |-> dict.Ah]],
                                 "ValueError")
                     ELSE [r EXCEPT !.call = [power |-> power, time |-> time,
                                               Wh |-> dict.Wh, Ah |-> dict.Ah],
                                    !.discharged_ah = RAdd(@, dict.Ah)]

\* _cumulative_consumption_and_emissions_electric, the loop body up to
\* sect.section_emissions, which reads sect.consumption["L/h"]
section_emissions ==
  /\ run.pc = "section_emissions"
  /\ run.i <= Len(run.route)
  /\ read_consumption(run.route[run.i], [run EXCEPT !.pc = "consumption"])

\* the rest of the loop body: sect.consumption is read once more, and the
\* section is added to the totals (an electric bus emits 0 g/s)
section_consumption ==
  /\ run.pc = "consumption"
  /\ LET sect == run.route[run.i]
         dict == consumption(instant_power(sect), duration_time(sect))
         duration == RSub(sect.end_time, sect.start_time)
     IN  read_consumption(sect,
           [run EXCEPT !.pc = "section_emissions",
                       !.i = @ + 1,
                       !.total_wh = RAdd(@, dict.Wh),
                       !.reported_ah = RAdd(@, dict.Ah),
                       !.total_battery_degradation = RAdd(@, degradation_in_section'),
                       !.total_emissions = RAdd(@, RMul(Zero, duration))])

\* the detour factor as the loop applies it to the totals of an iteration
adjust(value, factor, charged) == RMul(value, factor)

\* the end of an iteration: the totals of the traversal are adjusted and
\* accumulated
EndIteration ==
  /\ run.pc = "section_emissions"
  /\ run.i > Len(run.route)
  /\ run' = [run EXCEPT
       !.pc = "head",
       !.iter = @ + 1,
       !.before = [consumption |-> run.consumption,
                   emissions |-> run.emissions,
                   battery_degradation |-> run.battery_degradation],
       !.consumption = RAdd(@, adjust(run.total_wh, run.factor, run.charged)),
       !.emissions = RAdd(@, adjust(run.total_emissions, run.factor, run.charged)),
       !.battery_degradation =
          RAdd(@, adjust(run.total_battery_degradation, run.factor, run.charged)),
       !.availability_time_s = RAdd(@, _route_duration_time(run.route))]
  /\ UNCHANGED <<battery_vars, twin>>

\* after the loop: the costs, and the dictionary _run_electric returns
RunReturn ==
  /\ run.pc = "head"
  /\ run.iter = n_iters
  /\ LET costs == calculate_costs(run.consumption)
         availability_time_s == RSub(run.availability_time_s, run.unavailability_time_s)
     IN  run' = [run EXCEPT
           !.pc = "done",
           !.availability_time_s = availability_time_s,
           !.results = [consumption |-> run.consumption,
                        emissions |-> run.emissions,
                        battery_degradation |-> run.battery_degradation,
                        bus_cost |-> costs[1],
                        consumption_cost |-> costs[2],
                        availability_time_s |-> availability_time_s,
                        unavailability_time_s |-> run.unavailability_time_s,
                        n_buses |-> run.n_buses,
                        total_time_below_min_soc |-> total_time_below_min_soc]]
  /\ UNCHANGED <<battery_vars, twin>>

Running == run.pc \in {"head", "section_emissions", "consumption"}

\* the wall clock of the run advances while it runs
RunTick ==
  /\ Running
  /\ Tick
  /\ UNCHANGED run_vars

\* and so does the wall clock of the second run
TwinTick ==
  /\ Running
  /\ twin.clock < MaxClock
  /\ twin' = [twin EXCEPT !.clock = @ + 1]
  /\ UNCHANGED <<battery_vars, run>>

\* a battery whose capacity does not fade (no loss of health is allowed), and
\* a route in real mode
RunInit ==
  /\ NewBattery
  /\ min_state_of_health = 100
  /\ RouteIdle
  /\ run \in {StartOfRun(_process_real_sections(data)) : data \in RouteData}
  /\ twin = NoTwin

RunNext ==
  \/ RunCharge /\ UNCHANGED route_vars
  \/ RunNoCharge /\ UNCHANGED route_vars
  \/ section_emissions /\ UNCHANGED route_vars
  \/ section_consumption /\ UNCHANGED route_vars
  \/ EndIteration /\ UNCHANGED route_vars
  \/ RunReturn /\ UNCHANGED route_vars
  \/ RunTick /\ UNCHANGED route_vars
  \/ TwinTick /\ UNCHANGED route_vars

RunSpec == RunInit /\ [][RunNext]_vars

\* the steps of the program
RunStep ==
  (RunCharge \/ RunNoCharge \/ section_emissions \/ section_consumption
     \/ EndIteration \/ RunReturn) /\ UNCHANGED route_vars

\* the program keeps running until it returns or raises
RunFairSpec == RunSpec /\ WF_vars(RunStep)

(***************************************************************************)
(* Battery: properties                                                     *)
(***************************************************************************)
Completed == last.op # "none" /\ ~last.raised
\* charge held before the last call, in Ah
RemainingBefore == RMul(last.capacity_before, RDiv(last.soc_before, R(100)))

\* C1: after any sequence of update and charge calls the state of charge is
\* at least 0; a discharge larger than the remaining charge leaves it at 0.
C1_SocNeverNegative == RGe(state_of_charge_percent, Zero)

\* C2: after any sequence of update and charge calls the state of charge is at
\* most 100 percent, also in a step whose degradation lowers the capacity.
C2_SocAtMost100 == RLe(state_of_charge_percent, R(100))

\* C3: the current capacity never exceeds the initial capacity.
C3_CapacityAtMostInitial == RLe(current_capacity_ah, _initial_capacity_ah)

IsDischarge ==
  /\ Completed
  /\ last.op = "update"
  /\ RGt(last.ah_transferred, Zero)
  /\ RGt(last.time_seconds, Zero)

\* C4: a discharge (ah_transferred > 0, time_seconds > 0) never raises the
\* current capacity.
C4_DischargeNeverRaisesCapacity ==
  IsDischarge => RLe(current_capacity_ah, last.capacity_before)

C4_Witness == IsDischarge /\ RLt(current_capacity_ah, last.capacity_before)

\* C5: no update or charge call, at any charging power, lowers the
\* completed-cycle counter.
C5_CyclesNeverDecrease ==
  last.op # "none" => RGe(completed_cycles, last.cycles_before)

NoClamp == RLe(RSub(RemainingBefore, last.ah_transferred), last.capacity_before)

\* C6: an update that needs no clamping sets the state of charge to
\* ((C*s/100 - ah)/C)*100 with C the capacity before the step's degradation,
\* and its equivalent current is ah/(t/3600); C = 300, s = 100, ah = 30,
\* t = 3600 gives 90 percent and 30 A.
C6_NewSocAndCurrent ==
  /\ (Completed /\ last.op = "update" /\ NoClamp) =>
       /\ RMul(state_of_charge_percent, last.capacity_before)
            = RSub(RMul(last.capacity_before, last.soc_before),
                   RMul(R(100), last.ah_transferred))
       /\ RMul(last.electric_current, last.time_seconds)
            = RMul(last.ah_transferred, R(3600))
  /\ _compute_new_soc(R(300), R(100), R(30)) = R(90)
  /\ _calculate_current(R(30), R(3600)) = R(30)

C6_Witness ==
  /\ Completed
  /\ last.op = "update"
  /\ NoClamp
  /\ last.capacity_before = R(300)
  /\ last.soc_before = R(100)
  /\ last.ah_transferred = R(60)
  /\ state_of_charge_percent = R(80)
  /\ current_capacity_ah # last.capacity_before

ChargeApplies ==
  /\ last.op = "charge"
  /\ last.power > 0
  /\ RLt(last.soc_before, R(last.desired_soc))
  /\ last.desired_soc <= 100

\* C7: a charge with power > 0 and SOC < desired_soc <= 100 ends at desired_soc
\* and returns (gap in Ah) * voltage / power * 3600 seconds, a positive time;
\* the charge goes through the update path as a negative transfer.
C7_ChargeReachesDesiredSoc ==
  ChargeApplies =>
    /\ ~last.raised
    /\ state_of_charge_percent = R(last.desired_soc)
    /\ RGt(last.returned, Zero)
    /\ RMul(RDiv(last.returned, R(3600)), Frac(last.power, voltage_v))
         = RSub(RMul(Frac(last.desired_soc, 100), last.capacity_before), RemainingBefore)
    /\ RLt(last.ah_transferred, Zero)
    /\ RLt(last.electric_current, Zero)
    /\ last.time_seconds = last.returned

(***************************************************************************)
(* Route and SimulatedSection: properties                                  *)
(***************************************************************************)
\* the sections whose constructor has returned
Solved == {secciones[i] : i \in 1..Len(secciones)}
\* a forced stop: speed_limit = 0 on a section of positive length
IsForcedStop(s) == s.speed_limit = Zero /\ RGt(s.length, Zero)
\* start_speed^2 / (2 * length), with the section's final start_speed
StopDeceleration(s) == RDiv(RSq(s.start_speed), RMul(R(2), s.length))

\* C8: every solved section with speed_limit = 0 and length > 0 has end_speed 0,
\* and start_speed^2/(2*length), with its final start_speed, is at most the
\* magnitude of its effective_max_deceleration.
C8_ForcedStopWithinDeceleration ==
  \A s \in Solved :
    IsForcedStop(s) =>
      /\ s.end_speed = Zero
      /\ RLe(StopDeceleration(s), RAbs(s.effective_max_deceleration))

\* a solved forced stop that the loop of _decelerate_to_stop had to slow down,
\* and that still starts at a positive speed
C8_Witness ==
  \E s \in Solved :
    /\ IsForcedStop(s)
    /\ RLt(s.start_speed, s.initial_speed)
    /\ RGt(s.start_speed, Zero)
    /\ s.end_speed = Zero

\* C9: in the returned list, each section ends at the speed and at the time
\* at which the next one starts, and the first section starts at speed 0 and
\* time 0.
C9_ConsecutiveSectionsContinuous ==
  pc = "returned" =>
    /\ \A i \in 1..(Len(secciones) - 1) :
         /\ secciones[i].end_speed = secciones[i + 1].start_speed
         /\ secciones[i].end_time = secciones[i + 1].start_time
    /\ secciones # <<>> =>
         secciones[1].start_speed = Zero /\ secciones[1].start_time = Zero

\* a returned list where the solver of some section lowered its own start
\* speed, below the end speed its predecessor had computed
C9_Witness ==
  /\ pc = "returned"
  /\ \E i \in 1..(Len(secciones) - 1) :
       /\ RLt(secciones[i + 1].start_speed, secciones[i + 1].initial_speed)
       /\ secciones[i].end_speed = secciones[i + 1].start_speed
       /\ RGt(secciones[i + 1].start_time, Zero)

\* C10: the speed-reduction search of a section, once entered (stop,
\* decelerate or accelerate case), always comes to an end: the constructor
\* returns and the route goes on to its next row.
C10_SearchTerminates ==
  (pc \in {"stop", "decelerate", "accelerate"}) ~> (pc = "idle")

(***************************************************************************)
(* ResistanceCalculator: properties                                        *)
(***************************************************************************)
\* every section the route holds or is building
AllSections == {secciones[i] : i \in 1..Len(secciones)} \cup (IF sec = None THEN {} ELSE {sec})

\* the four forces on a section, written out: 0.5 * 1.225 * Cd * A * v_avg^2,
\* total_mass * acceleration, 0 on the flat, Crr * total_mass * 9.81
FourForces(s) ==
  <<RMul(RMul(Frac(1, 2), Frac(1225, 1000)),
         RMul(RMul(drag_coefficient, R(frontal_area)),
              RMul(s.rc_average_speed, s.rc_average_speed))),
    RMul(R(total_mass), s.rc_acceleration),
    Zero,
    RMul(RMul(rolling_resistance_coefficient, R(total_mass)), Frac(981, 100))>>

ChargeInvoked == n_calls' # n_calls /\ last'.op = "charge"

\* a step that starts an iteration of the loop
IterationStarts == run.pc = "head" /\ run'.pc \in {"section_emissions", "raised"}

\* C13: in the electric run charge_in_charging_point is invoked only at the
\* head of an iteration, with the power of the charging point and desired_soc
\* = max_battery_charge; an iteration starts with that call if and only if the
\* SOC is then strictly under min_battery_charge, the traversal follows the
\* call, and no step of a traversal invokes it
C13_ChargeOnlyAtIterationStart ==
  [][ /\ ChargeInvoked =>
           /\ IterationStarts
           /\ run.iter < n_iters
           /\ last'.desired_soc = max_battery_charge
           /\ last'.power = power_watts
           /\ (run'.pc = "section_emissions" => run'.i = 1 /\ run'.charged)
      /\ IterationStarts =>
           (ChargeInvoked <=> RLt(state_of_charge_percent, R(min_battery_charge)))
      /\ run.pc \in {"section_emissions", "consumption"} => ~ChargeInvoked
    ]_vars

\* the battery has just been charged at the head of an iteration, after a
\* traversal that left it under the minimum
C13_Witness ==
  /\ run.pc = "section_emissions"
  /\ run.i = 1
  /\ run.charged
  /\ run.iter > 0
  /\ last.op = "charge"
  /\ ~last.raised
  /\ RLt(last.soc_before, R(min_battery_charge))
  /\ state_of_charge_percent = R(max_battery_charge)

\* an iteration has just ended
IterationEnded == run.pc \in {"head", "done"} /\ run.before # None

\* what an iteration adds to an accumulator, as the claim has it
Scaled(value) == IF run.charged THEN RMul(value, RDiv(RAdd(length_km, distance_km), length_km))
                 ELSE value

\* C14: what an iteration of the electric run adds to the accumulated
\* consumption, emissions and battery degradation is its total multiplied by
\* (route_length + detour_distance) / route_length when the iteration charged
\* at the charging point, and its total as it is when it did not
C14_FactorOnlyWhenCharged ==
  IterationEnded =>
    /\ run.consumption = RAdd(run.before.consumption, Scaled(run.total_wh))
    /\ run.emissions = RAdd(run.before.emissions, Scaled(run.total_emissions))
    /\ run.battery_degradation =
         RAdd(run.before.battery_degradation, Scaled(run.total_battery_degradation))

\* the sum of charging time + 2 * time_min * 60 over the charges made so far
RECURSIVE SumOfCharges(_)
SumOfCharges(times) ==
  IF times = <<>> THEN Zero
  ELSE RAdd(RAdd(times[1], R(2 * time_min * 60)), SumOfCharges(Tail(times)))

\* C15: unavailability_time_s is, at every point of the run and in the
\* dictionary the run returns, the sum over the iterations that invoked
\* charge_in_charging_point of the time the call returned plus 2 * time_min
\* * 60; it is 0 while no charge was made, one entry is added by each charge
\* and by nothing else, and it never decreases
C15_UnavailabilityIsSumOfCharges ==
  /\ [](run.unavailability_time_s = SumOfCharges(run.charging_times))
  /\ [](run.charging_times = <<>> => run.unavailability_time_s = Zero)
  /\ [](run.pc = "done" =>
          run.results.unavailability_time_s = SumOfCharges(run.charging_times))
  /\ [][ /\ RGe(run'.unavailability_time_s, run.unavailability_time_s)
         /\ IF n_calls' # n_calls /\ last'.op = "charge" /\ ~last'.raised
            THEN /\ run'.charging_times = Append(run.charging_times, last'.returned)
                 /\ RGt(last'.returned, Zero)
            ELSE run'.charging_times = run.charging_times ]_vars

\* a run that charged has returned
C15_Witness ==
  /\ run.pc = "done"
  /\ run.charging_times # <<>>
  /\ RGt(run.results.unavailability_time_s, Zero)

\* the SOC the last Battery call would leave
SocAfterLastCall ==
  RSub(last.soc_before,
       RDiv(RMul(R(100), last.ah_transferred), last.capacity_before))

\* the last Battery call of the run is a discharge that would take the SOC
\* under the minimum operable threshold, or under 0
DeepDischarge ==
  /\ run.pc # "off"
  /\ last.op = "update"
  /\ RGt(last.ah_transferred, Zero)
  /\ RLt(SocAfterLastCall, R(min_battery_charge))

\* no two rows of the route have the same timestamp
DistinctTimestamps ==
  \A i \in 1..Len(run.route) : run.route[i].end_time # run.route[i].start_time

\* no section of the route is one of zero work
NonzeroWork == \A i \in 1..Len(run.route) : run.route[i].work # Zero

C17_ZeroLengthSectionIsNoOp ==
  /\ (pc = "raised" => sec.length # Zero)
  /\ (pc = "idle" /\ secciones # <<>> /\ secciones[Len(secciones)].length = Zero) =>
       LET s == secciones[Len(secciones)]
       IN  /\ s.end_time = s.start_time
           /\ s.end_speed = s.start_speed
           /\ s.start_speed = s.initial_speed

\* the section the run is reading
CurrentSection == run.route[run.i]

\* C18: a RealSection whose two timestamps are equal has acceleration 0, and
\* reading its instant_power, consumption and emissions and accumulating it
\* in the run loop raises no division-by-zero error: the run is never ended
\* by an exception raised on such a section
C18_ZeroDurationSectionIsGuarded ==
  run.pc # "off" =>
    /\ \A i \in 1..Len(run.route) :
         run.route[i].end_time = run.route[i].start_time => run.route[i].acceleration = Zero
    /\ run.error # <<"ZeroDivisionError">>
    /\ run.pc = "raised" => CurrentSection.end_time # CurrentSection.start_time

\* C19: two electric runs started from the same configuration and the same
\* route data return the same total_time_below_min_soc (the only aggregate
\* output that depends on anything but the configuration and the data),
\* whatever the wall-clock times at which their steps execute
C19_RunsAgreeOnTimeBelowMinSoc ==
  (run.pc = "done") =>
    run.results.total_time_below_min_soc = twin.total_time_below_min_soc

\* C20: the consumption cost an electric run returns is its accumulated
\* energy expressed in kWh times the electricity price per kWh, and the bus
\* cost is the base cost of the bus plus the capacity of the battery in kWh
\* times the cost of the battery per kWh (both to the cent)
C20_CostsFromKWh ==
  (run.pc = "done") =>
    LET energy_kWh == RDiv(run.results.consumption, R(1000))
    IN  /\ run.results.consumption_cost = round2(RMul(energy_kWh, Frac(15, 100)))
        /\ run.results.bus_cost = R(450000 + initial_capacity_kWh * 140)

(***************************************************************************)
(* Route: properties                                                       *)
(***************************************************************************)
\* the sum of the lengths of the sections of a route, in km
RECURSIVE SumOfLengthsKm(_)
SumOfLengthsKm(sections) ==
  IF sections = <<>> THEN Zero
  ELSE RAdd(RDiv(sections[1].length, R(1000)), SumOfLengthsKm(Tail(sections)))

\* C21: the route length the run loop uses in the detour correction factor
\* is the sum of the lengths of the sections built from the input data, for
\* every input route
C21_RouteLengthIsSumOfSections ==
  run.pc # "off" =>
    /\ run.route_length_km = SumOfLengthsKm(run.route)
    /\ RMul(run.factor, SumOfLengthsKm(run.route))
         = RAdd(SumOfLengthsKm(run.route), distance_km)

(***************************************************************************)
(* Battery: the below-minimum timer and the degradation factors            *)
(***************************************************************************)
\* C22: after every update_soc_and_degradation call that returns, the
\* below-minimum timer is running (timer_start is set) if and only if the
\* resulting SOC is strictly below min_battery_charge;
\* total_time_below_min_soc never decreases, and it changes only in a step
\* that takes the SOC from below the threshold to at or above it
C22_TimerRunsIffBelowMinimum ==
  /\ [](Completed =>
          (timer_start # None <=> RLt(state_of_charge_percent, R(min_battery_charge))))
  /\ [][ /\ total_time_below_min_soc' >= total_time_below_min_soc
         /\ total_time_below_min_soc' # total_time_below_min_soc =>
              /\ RLt(state_of_charge_percent, R(min_battery_charge))
              /\ RGe(state_of_charge_percent', R(min_battery_charge)) ]_vars

\* a call has brought the SOC back from below the threshold, and the time
\* spent there has been added to the total
C22_Witness ==
  /\ Completed
  /\ RLt(last.soc_before, R(min_battery_charge))
  /\ RGe(state_of_charge_percent, R(min_battery_charge))
  /\ timer_start = None
  /\ total_time_below_min_soc > 0

\* the currents the calls of the model apply, in A: positive for a discharge,
\* negative for a charge
AppliedCurrents == {R(i) : i \in Currents} \cup {R(-i) : i \in Currents}

\* C23: the current-magnitude degradation factor is non-decreasing in
\* |current| in both directions: of two charging currents (current < 0), as
\* of two discharging currents (current >= 0), the one with the larger
\* magnitude gets a factor at least as large, and the factor is never below 1
C23_CurrentFactorGrowsWithMagnitude ==
  Completed =>
    LET current == last.electric_current
        factor == _electric_current_degradation_factor(current)
    IN  /\ RGe(factor, R(1))
        /\ \A other \in AppliedCurrents :
             (/\ _is_charging(other) = _is_charging(current)
              /\ RLe(RAbs(other), RAbs(current)))
               => RLe(_electric_current_degradation_factor(other), factor)

(***************************************************************************)
(* SimulatedSection: properties of the solved kinematics                   *)
(***************************************************************************)
\* C24: the resistance forces a SimulatedSection exposes after construction
\* are those of its solved kinematics: its inertia is the total mass of the
\* bus times its final acceleration, and its air resistance is that of the
\* average of its final start_speed and end_speed (not of the end speed 0 and
\* end time 0 it holds before the solve)
C24_ForcesFromSolvedKinematics ==
  \A s \in Solved :
    /\ inertia(s.rc_acceleration) = RMul(R(total_mass), s.acceleration)
    /\ air_resistance(s.rc_average_speed)
         = air_resistance(RDiv(RAdd(s.start_speed, s.end_speed), R(2)))

\* start_speed, end_speed, start_time, end_time and acceleration of a section
Kinematics(s) == <<s.start_speed, s.end_speed, s.start_time, s.end_time, s.acceleration>>

\* C25: once the constructor of a SimulatedSection has returned, its
\* start_speed, end_speed, start_time, end_time and acceleration are never
\* changed again, in particular not while later sections of the same route
\* are being built
C25_SolvedSectionNeverChanges ==
  [][ \A i \in 1..Len(secciones) :
        /\ i <= Len(secciones')
        /\ Kinematics(secciones'[i]) = Kinematics(secciones[i]) ]_vars

\* the constant acceleration the final speeds of a section of positive
\* length imply
ImpliedAcceleration(s) ==
  RDiv(RSub(RSq(s.end_speed), RSq(s.start_speed)), RMul(R(2), s.length))

\* C26: in a completed simulated route, every section of positive length
\* and nonzero speed limit has the acceleration implied by its final speeds,
\* (end_speed^2 - start_speed^2) / (2 * length), within the
\* resistance-adjusted bound of its case: at most |effective_max_acceleration|
\* in magnitude when it speeds up, at most |effective_max_deceleration| when
\* it slows down
C26_ImpliedAccelerationWithinBound ==
  pc = "returned" =>
    \A i \in 1..Len(secciones) :
      LET s == secciones[i]
      IN  (RGt(s.length, Zero) /\ s.speed_limit # Zero) =>
            /\ RGt(s.end_speed, s.start_speed) =>
                 RLe(RAbs(ImpliedAcceleration(s)), RAbs(s.effective_max_acceleration))
            /\ RLt(s.end_speed, s.start_speed) =>
                 RLe(RAbs(ImpliedAcceleration(s)), RAbs(s.effective_max_deceleration))

\* C27: every solved SimulatedSection of positive length ends strictly later
\* than it starts, in all four cases (stop, decelerate, accelerate, and equal
\* speed with length / max(start_speed, 0.1)), so the section after it starts
\* strictly later than it does
C27_EndTimeAfterStartTime ==
  \A i \in 1..Len(secciones) :
    RGt(secciones[i].length, Zero) =>
      /\ RGt(secciones[i].end_time, secciones[i].start_time)
      /\ i < Len(secciones) =>
           RGt(secciones[i + 1].start_time, secciones[i].start_time)

\* a returned route with a braking section, a section that speeds up, and a
\* section at rest whose time is its length / 0.1, each of positive length
C27_Witness ==
  /\ pc = "returned"
  /\ \E i, j, k \in 1..Len(secciones) :
       /\ RGt(secciones[i].length, Zero)
       /\ secciones[i].decel # None
       /\ RLt(secciones[i].decel, Zero)
       /\ RGt(secciones[j].length, Zero)
       /\ secciones[j].accel # None
       /\ RGt(secciones[j].accel, Zero)
       /\ RGt(secciones[k].length, Zero)
       /\ secciones[k].start_speed = Zero
       /\ secciones[k].end_time
            = RAdd(secciones[k].start_time, RMul(secciones[k].length, R(10)))

(***************************************************************************)
(* Electric run: the battery along a traversal                             *)
(***************************************************************************)
\* the run is between two sections of a traversal, or at its end
BetweenSections == run.pc \in {"section_emissions", "head", "done"}

\* C28: during one traversal of the route the battery is discharged exactly
\* once per section: the Ah taken from the battery over the traversal is the
\* sum of the Ah the sections report, however often the consumption or the
\* emissions of a section are read
C28_OneDischargePerSection ==
  BetweenSections => run.discharged_ah = run.reported_ah

\* the last Battery call was update_soc_and_degradation(ah_transferred,
\* time_seconds) with time_seconds > 0
UpdateWithPositiveTime ==
  /\ last.op = "update"
  /\ RGt(last.time_seconds, Zero)

\* C29: update_soc_and_degradation(ah_transferred, time_seconds) with
\* time_seconds > 0 returns without raising for every ah_transferred, also
\* for ah_transferred = 0 (a section of zero net power), and then leaves the
\* SOC, the cycle counter and the capacity as they were
C29_UpdateWithPositiveTimeReturns ==
  (run.pc # "off" /\ UpdateWithPositiveTime) =>
    /\ ~last.raised
    /\ last.ah_transferred = Zero =>
         /\ state_of_charge_percent = last.soc_before
         /\ completed_cycles = last.cycles_before
         /\ current_capacity_ah = last.capacity_before

\* C30: in every completed simulated route the start_speed and the end_speed
\* of each section are at least 0, and its end_speed is at most its speed
\* limit in m/s, also after the route has overwritten the end_speed of a
\* section with the adjusted start speed of the next
C30_SpeedsWithinLimit ==
  pc = "returned" =>
    \A i \in 1..Len(secciones) :
      /\ RGe(secciones[i].start_speed, Zero)
      /\ RGe(secciones[i].end_speed, Zero)
      /\ RLe(secciones[i].end_speed, secciones[i].speed_limit)

\* a returned route with a section whose solver lowered both of its speeds,
\* and whose end speed the route then overwrote with the start speed the
\* next section had lowered
C30_Witness ==
  /\ pc = "returned"
  /\ \E i \in 1..(Len(secciones) - 1) :
       /\ RLt(secciones[i].start_speed, secciones[i].initial_speed)
       /\ RLt(secciones[i + 1].start_speed, secciones[i + 1].initial_speed)
       /\ RLt(secciones[i + 1].initial_speed, secciones[i].speed_limit)
       /\ secciones[i].end_speed = secciones[i + 1].start_speed

=============================================================================
